---------------------------- MODULE Spec2Model ----------------------------
(***************************************************************************)
(* gin-request-limitter: per-(userId, url) request admission control.     *)
(*                                                                         *)
(* The model follows the current variant of the sources:                   *)
(*   RequestTracker and its methods      src/unnamed/part_003              *)
(*   ValidateRequest, LimitterConfig     src/limitter.go:30-135            *)
(*   datastore-backed limitter           src/limitterDatastore.go:16-87    *)
(*   redis-backed limitter               src/limitterDatastore.go:123-199  *)
(*                                                                         *)
(* Times are Unix milliseconds (time.Time.UnixMilli()).  A request is      *)
(* split at its backend round trips: Start (time.Now()), Load (tx.Get /    *)
(* HGetAll) and Finish (ValidateRequest, then tx.Put + Commit or the      *)
(* pipelined HSETs), so that concurrent requests interleave where the      *)
(* code lets them.                                                         *)
(***************************************************************************)
EXTENDS Integers, Sequences, FiniteSets, TLC

(***************************************************************************)
(* Bounds of the model.                                                    *)
(***************************************************************************)
\* requests handled one at a time: last clock value, number of requests
MaxTime == 6
MaxRequests == 4
\* concurrent requests
MaxConcurrentTime == 3
MaxConcurrentRequests == 3
\* requests whose backend calls may fail
MaxFaultyTime == 3
MaxFaultyRequests == 3
\* more than one client: last clock value, number of requests, clients
MaxKeysTime == 3
MaxKeysRequests == 3
NumClients == 2
\* concurrent requests, the redis save command by command
MaxPipelinedTime == 2
MaxPipelinedRequests == 2
\* concurrent requests through the datastore limiter, every one to its end
MaxRetryTime == 2
MaxRetryRequests == 3
\* request slots: requests that can be in flight together
NumProcs == 2
\* attempts RunInTransaction makes before it gives up with
\* ErrConcurrentTransaction (a bound here; the client library's default is 3)
MaxAttempts == 2

Procs == 1..NumProcs

(***************************************************************************)
(* Program constants.                                                      *)
(***************************************************************************)
DefaultSessionExpirationSeconds == 3600
\* time.Duration(expSec) * time.Second, read back with UnixMilli()
MillisPerSecond == 1000

\* what ProcessValidateResult tells the gin context
Proceed == "next"
StatusTooEarly == "425 Too Early"
StatusTooManyRequests == "429 Too Many Requests"
StatusInternalServerError == "500 Internal Server Error"

\* error values a handler passes to ProcessValidateResult
Nil == "nil"
ErrorRequestTooFast == "request is too fast"
ErrorRequestTooFreequently == "request is too freequently"
ErrStorage == "storage error"
ErrConcurrentTransaction == "concurrent transaction"

(***************************************************************************)
(* Configurations a limiter is created with (LimitterConfig).              *)
(***************************************************************************)
IntervalChoices == {0, 2}
WindowChoices == {0, 3}
MaxPerWindowChoices == {0, 1, 2}
ExpSecChoices == {0, 1}

LimitterConfig ==
    [MinRequestInterval : IntervalChoices,
     WindowSize : WindowChoices,
     MaxRequestPerWindow : MaxPerWindowChoices,
     AbortOnFail : BOOLEAN,
     ExpSec : ExpSecChoices]

Backends == {"datastore", "redis"}

\* The handler constructors: the arguments go into the LimitterConfig as
\* they are given; AbortOnFail keeps its zero value.
CreateDatastoreBackedLimitterHandler(minRequestIntervalMilis, windowFrameMilis, maxRequestInWindow, sessionExpirationSeconds) ==
    [MinRequestInterval |-> minRequestIntervalMilis,
     WindowSize |-> windowFrameMilis,
     MaxRequestPerWindow |-> maxRequestInWindow,
     AbortOnFail |-> FALSE,
     ExpSec |-> sessionExpirationSeconds]

CreateRedisBackedLimitterHandler(minRequestIntervalMilis, windowFrameMilis, maxRequestInWindow, sessionExpirationSeconds) ==
    [MinRequestInterval |-> minRequestIntervalMilis,
     WindowSize |-> windowFrameMilis,
     MaxRequestPerWindow |-> maxRequestInWindow,
     AbortOnFail |-> FALSE,
     ExpSec |-> sessionExpirationSeconds]

\* arguments a caller may pass: the parameters are signed integers
IntervalArgs == {0 - 2, 0, 2}
WindowArgs == {0 - 3, 0, 3}
MaxInWindowArgs == {1}
ExpirationArgs == {1}

\* the configurations the constructors return for these arguments
ConstructedConfigs(b) ==
    {IF b = "datastore"
     THEN CreateDatastoreBackedLimitterHandler(i, w, m, e)
     ELSE CreateRedisBackedLimitterHandler(i, w, m, e) :
        <<i, w, m, e>> \in IntervalArgs \X WindowArgs \X MaxInWindowArgs
                               \X ExpirationArgs}

\* the (userId, url) the requests of a one-client run carry
UserId == "u1"
Url == "/a"

\* the (userId, url) pairs of a run with more than one client: userId is
\* whatever getUserIdFromContext returns and url is the decoded request
\* path, so either may hold '|' or ':'
IdentityChoices ==
    {<<"u1", "/a|/b">>, <<"u1|/a", "/b">>,
     <<"u1", "/a:/b">>, <<"u1:/a", "/b">>}

keyPrefix == "test"
environment == "dev"

VARIABLES
    config,     \* the LimitterConfig of the handler
    backend,    \* which limiter the handler is
    serial,     \* TRUE: the host handles requests one at a time
    faulty,     \* TRUE: backend calls may fail
    identities, \* the (userId, url) pairs the requests of the run carry
    now,        \* the clock, Unix milliseconds
    store,      \* key -> stored record, or NoRecord
    version,    \* key -> number of writes the backend has applied to it
    pc,         \* per request slot: "idle", "started", "loaded"
    userId,     \* per slot: getUserIdFromContext(c)
    url,        \* per slot: c.Request.URL.Path
    currentTime,\* per slot: time.Now() taken at the top of the handler
    tracker,    \* per slot: the handler's *RequestTracker
    base,       \* per slot: version of the record the load saw
    attempts,   \* per slot: finished transaction attempts (datastore)
    loadFailed, \* per slot: the load returned a storage error
    seen,       \* per slot: how many requests had finished when it started
    errValidate,\* per slot: what ValidateRequest returned (redis)
    pipeline,   \* per slot: commands of its pipeline the server has yet to run
    hist        \* finished requests, in order of completion

vars == <<config, backend, serial, faulty, identities, now, store, version,
          pc, userId, url, currentTime, tracker, base, attempts, loadFailed,
          seen, errValidate, pipeline, hist>>


(***************************************************************************)
(* RequestTracker (src/unnamed/part_003).                                  *)
(***************************************************************************)
\* tracker := &RequestTracker{}
ZeroTracker ==
    [UID |-> "", URL |-> "", WindowNum |-> 0, WindowRequest |-> 0,
     LastCall |-> 0, Exp |-> 0]

NewRequestTracker(uid, pUrl) ==
    [UID |-> uid, URL |-> pUrl, WindowNum |-> 0, WindowRequest |-> 0,
     LastCall |-> 0, Exp |-> 0]

\* expiration is already a Unix-millisecond value here
NewRequestTrackerWithExpiration(uid, pUrl, expiration) ==
    [UID |-> uid, URL |-> pUrl, WindowNum |-> 0, WindowRequest |-> 0,
     LastCall |-> 0, Exp |-> expiration]

CreateExpirationDefaultOnly(cfg, Now) ==
    Now + DefaultSessionExpirationSeconds * MillisPerSecond

CreateExpiration(cfg, Now) ==
    LET expSec == IF cfg.ExpSec > 0 THEN cfg.ExpSec
                  ELSE DefaultSessionExpirationSeconds
    IN Now + expSec * MillisPerSecond

UpdateWindowAlwaysResets(t, time, windowMilis) ==
    IF windowMilis > 0
    THEN [t EXCEPT !.WindowNum = time \div windowMilis, !.WindowRequest = 0]
    ELSE t

UpdateWindowKeepsCount(t, time, windowMilis) ==
    IF windowMilis > 0
    THEN [t EXCEPT !.WindowNum = time \div windowMilis]
    ELSE t

UpdateWindow(t, time, windowMilis) ==
    IF windowMilis > 0
    THEN LET currentWindow == time \div windowMilis
         IN IF currentWindow # t.WindowNum
            THEN [t EXCEPT !.WindowNum = currentWindow, !.WindowRequest = 0]
            ELSE t
    ELSE t

UpdateRequestAlwaysCounts(t, time, cfg) ==
    LET u == UpdateWindow(t, time, cfg.WindowSize)
        w == [u EXCEPT !.WindowRequest = u.WindowRequest + 1]
    IN [w EXCEPT !.LastCall = time, !.Exp = CreateExpiration(cfg, time)]


UpdateRequest(t, time, cfg) ==
    LET w == IF cfg.WindowSize > 0
             THEN LET u == UpdateWindow(t, time, cfg.WindowSize)
                  IN [u EXCEPT !.WindowRequest = u.WindowRequest + 1]
             ELSE t
    IN [w EXCEPT !.LastCall = time, !.Exp = CreateExpiration(cfg, time)]

IsRequestTooFastOffByOne(t, time, requestMinIntervalMilis) ==
    IF t.LastCall = 0 THEN FALSE
    ELSE time - t.LastCall < requestMinIntervalMilis - 1

IsRequestTooFastNoFirstGuard(t, time, requestMinIntervalMilis) ==
    time - t.LastCall < requestMinIntervalMilis

IsRequestTooFast(t, time, requestMinIntervalMilis) ==
    IF t.LastCall = 0 THEN FALSE
    ELSE time - t.LastCall < requestMinIntervalMilis

IsRequestTooFrequentlyOneMore(t, time, maxRequestPerWindow) ==
    t.WindowRequest > maxRequestPerWindow + 1

IsRequestTooFrequentlyInclusive(t, time, maxRequestPerWindow) ==
    t.WindowRequest >= maxRequestPerWindow

IsRequestTooFrequently(t, time, maxRequestPerWindow) ==
    t.WindowRequest > maxRequestPerWindow

(***************************************************************************)
(* ValidateRequest (src/limitter.go:54-79): the error it returns and the   *)
(* tracker as it leaves it.                                                *)
(***************************************************************************)
ValidateRequestNoWindowGuard(t, time, cfg) ==
    IF cfg.MinRequestInterval > 0
       /\ IsRequestTooFast(t, time, cfg.MinRequestInterval)
    THEN [err |-> ErrorRequestTooFast, tracker |-> t]
    ELSE LET u == UpdateRequest(t, time, cfg)
         IN IF IsRequestTooFrequently(u, time, cfg.MaxRequestPerWindow)
            THEN [err |-> ErrorRequestTooFreequently, tracker |-> u]
            ELSE [err |-> Nil, tracker |-> u]

ValidateRequestUpdateFirst(t, time, cfg) ==
    LET u == UpdateRequest(t, time, cfg) IN
    IF cfg.MinRequestInterval > 0
       /\ IsRequestTooFast(t, time, cfg.MinRequestInterval)
    THEN [err |-> ErrorRequestTooFast, tracker |-> u]
    ELSE IF cfg.WindowSize > 0
            /\ IsRequestTooFrequently(u, time, cfg.MaxRequestPerWindow)
         THEN [err |-> ErrorRequestTooFreequently, tracker |-> u]
         ELSE [err |-> Nil, tracker |-> u]

ValidateRequestQuotaFirst(t, time, cfg) ==
    LET u == UpdateRequest(t, time, cfg) IN
    IF cfg.WindowSize > 0
       /\ IsRequestTooFrequently(u, time, cfg.MaxRequestPerWindow)
    THEN [err |-> ErrorRequestTooFreequently, tracker |-> u]
    ELSE IF cfg.MinRequestInterval > 0
            /\ IsRequestTooFast(t, time, cfg.MinRequestInterval)
         THEN [err |-> ErrorRequestTooFast, tracker |-> t]
         ELSE [err |-> Nil, tracker |-> u]


ValidateRequestReadsClock(t, time, cfg) ==
    IF cfg.MinRequestInterval > 0
       /\ IsRequestTooFast(t, now, cfg.MinRequestInterval)
    THEN [err |-> ErrorRequestTooFast, tracker |-> t]
    ELSE LET u == UpdateRequest(t, now, cfg)
         IN IF cfg.WindowSize > 0
               /\ IsRequestTooFrequently(u, now, cfg.MaxRequestPerWindow)
            THEN [err |-> ErrorRequestTooFreequently, tracker |-> u]
            ELSE [err |-> Nil, tracker |-> u]


ValidateRequest(t, time, cfg) ==
    IF cfg.MinRequestInterval > 0
       /\ IsRequestTooFast(t, time, cfg.MinRequestInterval)
    THEN [err |-> ErrorRequestTooFast, tracker |-> t]
    ELSE LET u == UpdateRequest(t, time, cfg)
         IN IF cfg.WindowSize > 0
               /\ IsRequestTooFrequently(u, time, cfg.MaxRequestPerWindow)
            THEN [err |-> ErrorRequestTooFreequently, tracker |-> u]
            ELSE [err |-> Nil, tracker |-> u]

\* ProcessValidateResult / processValidateResult: what the gin context is
\* told.  Proceed is c.Next() (the request goes on to its handler).
ProcessValidateResultOneRejection(validateError) ==
    IF validateError = Nil THEN Proceed
    ELSE IF validateError \in {ErrorRequestTooFast, ErrorRequestTooFreequently}
         THEN StatusTooEarly
    ELSE StatusInternalServerError

ProcessValidateResult(validateError) ==
    IF validateError = Nil THEN Proceed
    ELSE IF validateError = ErrorRequestTooFast THEN StatusTooEarly
    ELSE IF validateError = ErrorRequestTooFreequently
         THEN StatusTooManyRequests
    ELSE StatusInternalServerError

\* whether ProcessValidateResult itself calls c.Next(): on a nil error, and
\* only for a limiter created as middleware; a limiter created as handler
\* returns and gin runs the next handler of the chain
CallsNext(validateError, isMiddleware) == validateError = Nil /\ isMiddleware

(***************************************************************************)
(* Keys.  The SHA-1 digest is taken as injective, so the datastore key is  *)
(* the string that is digested.                                            *)
(***************************************************************************)
CreateTrackerName(pUserId, pUrl) == pUserId \o "|" \o pUrl

CreateRedisTrackerKey(pUserId, pUrl) ==
    keyPrefix \o ":" \o environment \o ":" \o pUserId \o ":" \o pUrl

TrackerKey(b, pUserId, pUrl) ==
    IF b = "datastore" THEN CreateTrackerName(pUserId, pUrl)
    ELSE CreateRedisTrackerKey(pUserId, pUrl)

\* the keys a handler on backend b reads and writes for the identities ids
KeysOf(b, ids) == {TrackerKey(b, id[1], id[2]) : id \in ids}

(***************************************************************************)
(* The backend.  A stored record is the six tracker fields; a redis key    *)
(* also has the time-to-live of its last EXPIRE in seconds (0: none set).  *)
(* A datastore entity written under another schema (the earlier            *)
(* RequestTracker structs had no `datastore:"..."` tags, so their          *)
(* properties are named UID, URL, WindowNum, ...) makes tx.Get return      *)
(* ErrFieldMismatch: mismatch is set, and fields are the struct fields the *)
(* entity's properties do load into.                                       *)
(***************************************************************************)
Fields == {"UID", "URL", "WindowNum", "WindowRequest", "LastCall", "Exp"}

NoRecord ==
    [found |-> FALSE, tracker |-> ZeroTracker, ttl |-> 0,
     mismatch |-> FALSE, fields |-> {}]

\* a record as the limiters write it
Record(t, ttl) ==
    [found |-> TRUE, tracker |-> t, ttl |-> ttl,
     mismatch |-> FALSE, fields |-> Fields]

\* an entity left by another schema, holding the values of t
LegacyRecord(t, loadable) ==
    [found |-> TRUE, tracker |-> t, ttl |-> 0,
     mismatch |-> TRUE, fields |-> loadable]

\* whether a backend call of this step fails: only a faulty run has failures
FaultChoices == IF faulty THEN BOOLEAN ELSE {FALSE}

InFlight == {p \in Procs : pc[p] # "idle"}

TimeBound ==
    IF Cardinality(identities) > 1 THEN MaxKeysTime
    ELSE IF faulty THEN MaxFaultyTime
    ELSE IF serial THEN MaxTime ELSE MaxConcurrentTime

RequestBound ==
    IF Cardinality(identities) > 1 THEN MaxKeysRequests
    ELSE IF faulty THEN MaxFaultyRequests
    ELSE IF serial THEN MaxRequests ELSE MaxConcurrentRequests

\* a finished request of slot p: its time, the error its handler passed to
\* ProcessValidateResult, which backend calls failed, the version of the
\* record it had loaded, whether it wrote the record, how many requests
\* had finished when it started, its (userId, url), and the tracker its
\* handler held before its last step and the one it ends with
Finished(p, err, lf, sf, readVersion, wrote) ==
    [t |-> currentTime[p], err |-> err, loadFailed |-> lf, saveFailed |-> sf,
     base |-> readVersion, wrote |-> wrote, seen |-> seen[p],
     userId |-> userId[p], url |-> url[p], loaded |-> tracker[p],
     tracker |-> tracker'[p]]

(***************************************************************************)
(* Initial states: one handler, nothing stored, no request in flight.      *)
(***************************************************************************)
InitFor(configs, isSerial, isFaulty, clients) ==
    /\ config \in configs
    /\ backend \in Backends
    /\ serial = isSerial
    /\ faulty = isFaulty
    /\ identities \in clients
    /\ now = 1
    /\ store = [k \in KeysOf(backend, identities) |-> NoRecord]
    /\ version = [k \in KeysOf(backend, identities) |-> 0]
    /\ pc = [p \in Procs |-> "idle"]
    /\ userId = [p \in Procs |-> ""]
    /\ url = [p \in Procs |-> ""]
    /\ currentTime = [p \in Procs |-> 0]
    /\ tracker = [p \in Procs |-> ZeroTracker]
    /\ base = [p \in Procs |-> 0]
    /\ attempts = [p \in Procs |-> 0]
    /\ loadFailed = [p \in Procs |-> FALSE]
    /\ seen = [p \in Procs |-> 0]
    /\ errValidate = [p \in Procs |-> Nil]
    /\ pipeline = [p \in Procs |-> <<>>]
    /\ hist = <<>>

\* one client: every request carries (UserId, Url)
InitWith(configs, isSerial, isFaulty) ==
    InitFor(configs, isSerial, isFaulty, {{<<UserId, Url>>}})

\* requests one at a time, no storage failure
Init == InitWith({c \in LimitterConfig : ~c.AbortOnFail}, TRUE, FALSE)

\* concurrent requests with a window quota, no storage failure
InitConcurrent ==
    InitWith({c \in LimitterConfig :
                 /\ ~c.AbortOnFail /\ c.ExpSec = 1
                 /\ c.WindowSize > 0 /\ c.MaxRequestPerWindow >= 1},
             FALSE, FALSE)

\* requests one at a time, backend calls may fail
InitFaulty == InitWith({c \in LimitterConfig : c.ExpSec = 1}, TRUE, TRUE)

\* a handler made by a constructor from any arguments, requests one at a
\* time, no storage failure
InitConstructed ==
    /\ InitFor(UNION {ConstructedConfigs(b) : b \in Backends}, TRUE, FALSE,
               {{<<UserId, Url>>}})
    /\ config \in ConstructedConfigs(backend)

\* two clients, requests one at a time, no storage failure
InitKeys ==
    InitFor({c \in LimitterConfig : ~c.AbortOnFail /\ c.ExpSec = 1},
            TRUE, FALSE,
            {ids \in SUBSET IdentityChoices : Cardinality(ids) = NumClients})

\* the redis limiter with a window quota, concurrent requests, the save
\* command by command
InitPipelined ==
    /\ InitWith({c \in LimitterConfig :
                    /\ ~c.AbortOnFail /\ c.ExpSec = 1
                    /\ c.WindowSize > 0 /\ c.MaxRequestPerWindow >= 1},
                FALSE, FALSE)
    /\ backend = "redis"

\* the datastore limiter on a key whose entity was left by another schema:
\* one request admitted at time 1, stored under property names of which
\* any subset loads into the current struct
LegacyTracker ==
    [UID |-> UserId, URL |-> Url, WindowNum |-> 0, WindowRequest |-> 1,
     LastCall |-> 1, Exp |-> 1 + MillisPerSecond]

InitLegacy ==
    /\ config \in {c \in LimitterConfig : ~c.AbortOnFail /\ c.ExpSec = 1}
    /\ backend = "datastore"
    /\ serial = TRUE
    /\ faulty = FALSE
    /\ identities = {<<UserId, Url>>}
    /\ now = 1
    /\ \E loadable \in SUBSET Fields :
          store = [k \in KeysOf(backend, identities) |->
                      LegacyRecord(LegacyTracker, loadable)]
    /\ version = [k \in KeysOf(backend, identities) |-> 0]
    /\ pc = [p \in Procs |-> "idle"]
    /\ userId = [p \in Procs |-> ""]
    /\ url = [p \in Procs |-> ""]
    /\ currentTime = [p \in Procs |-> 0]
    /\ tracker = [p \in Procs |-> ZeroTracker]
    /\ base = [p \in Procs |-> 0]
    /\ attempts = [p \in Procs |-> 0]
    /\ loadFailed = [p \in Procs |-> FALSE]
    /\ seen = [p \in Procs |-> 0]
    /\ errValidate = [p \in Procs |-> Nil]
    /\ pipeline = [p \in Procs |-> <<>>]
    /\ hist = <<>>

(***************************************************************************)
(* The clock.                                                              *)
(***************************************************************************)
\* With requests one at a time the clock is read only by Start, so it
\* stands still while a request is in flight.
TickWithin(bound) ==
    /\ now < bound
    /\ serial => InFlight = {}
    /\ now' = now + 1
    /\ UNCHANGED <<config, backend, serial, faulty, identities, store,
                   version, pc, userId, url, currentTime, tracker, base,
                   attempts, loadFailed, seen, errValidate, pipeline, hist>>

Tick == TickWithin(TimeBound)

(***************************************************************************)
(* Top of the handler: userId, url, currentTime := time.Now(),             *)
(* tracker := &RequestTracker{} (limitterDatastore.go:22-27, 158-163).     *)
(***************************************************************************)
StartWithin(p, bound) ==
    /\ pc[p] = "idle"
    /\ Len(hist) + Cardinality(InFlight) < bound
    /\ serial => InFlight = {}
    \* idle slots are interchangeable: the lowest one takes the request
    /\ \A q \in Procs : q < p => pc[q] # "idle"
    /\ pc' = [pc EXCEPT ![p] = "started"]
    /\ \E id \in identities :
          /\ userId' = [userId EXCEPT ![p] = id[1]]
          /\ url' = [url EXCEPT ![p] = id[2]]
    /\ currentTime' = [currentTime EXCEPT ![p] = now]
    /\ tracker' = [tracker EXCEPT ![p] = ZeroTracker]
    /\ attempts' = [attempts EXCEPT ![p] = 0]
    /\ loadFailed' = [loadFailed EXCEPT ![p] = FALSE]
    /\ base' = [base EXCEPT ![p] = 0]
    /\ seen' = [seen EXCEPT ![p] = Len(hist)]
    /\ UNCHANGED <<config, backend, serial, faulty, identities, now, store,
                   version, errValidate, pipeline, hist>>

Start(p) == StartWithin(p, RequestBound)

(***************************************************************************)
(* Load.                                                                   *)
(*  datastore: tx.Get inside RunInTransaction (limitterDatastore.go:31-57).*)
(*    ErrNoSuchEntity gives a new tracker; any other error but a field    *)
(*    mismatch is returned, which ends the transaction and the request.    *)
(*  redis: LoadRedisRequestTracker (127-132, 165-168): a new tracker,      *)
(*    filled from HGetAll; an error is logged and the handler goes on.     *)
(***************************************************************************)
\* tx.Get or HGetAll(...).Scan into dst: the properties that match a field
\* are loaded, the other fields keep what dst held
LoadEntity(rec, dst) ==
    [UID |-> IF "UID" \in rec.fields THEN rec.tracker.UID ELSE dst.UID,
     URL |-> IF "URL" \in rec.fields THEN rec.tracker.URL ELSE dst.URL,
     WindowNum |-> IF "WindowNum" \in rec.fields
                   THEN rec.tracker.WindowNum ELSE dst.WindowNum,
     WindowRequest |-> IF "WindowRequest" \in rec.fields
                       THEN rec.tracker.WindowRequest ELSE dst.WindowRequest,
     LastCall |-> IF "LastCall" \in rec.fields
                  THEN rec.tracker.LastCall ELSE dst.LastCall,
     Exp |-> IF "Exp" \in rec.fields THEN rec.tracker.Exp ELSE dst.Exp]

LoadRedisRequestTracker(k, pUserId, pUrl, fails) ==
    IF fails \/ ~store[k].found THEN NewRequestTracker(pUserId, pUrl)
    ELSE LoadEntity(store[k], NewRequestTracker(pUserId, pUrl))

\* ErrFieldMismatch is dropped and the handler goes on with the tracker as
\* tx.Get left it; only ErrNoSuchEntity makes a new tracker
TxGet(k, pUserId, pUrl, time, dst) ==
    IF store[k].found THEN LoadEntity(store[k], dst)
    ELSE NewRequestTrackerWithExpiration(pUserId, pUrl,
                                         CreateExpiration(config, time))

Load(p, fails) ==
    LET k == TrackerKey(backend, userId[p], url[p]) IN
    /\ pc[p] = "started"
    /\ base' = [base EXCEPT ![p] = version[k]]
    /\ IF backend = "datastore"
       THEN IF fails
            THEN /\ pc' = [pc EXCEPT ![p] = "idle"]
                 /\ UNCHANGED <<tracker, loadFailed>>
                 /\ hist' = Append(hist,
                        Finished(p, ErrStorage, TRUE, FALSE, version[k],
                                 FALSE))
            ELSE /\ pc' = [pc EXCEPT ![p] = "loaded"]
                 /\ tracker' = [tracker EXCEPT
                        ![p] = TxGet(k, userId[p], url[p], currentTime[p],
                                    tracker[p])]
                 /\ UNCHANGED <<hist, loadFailed>>
       ELSE /\ pc' = [pc EXCEPT ![p] = "loaded"]
            /\ tracker' = [tracker EXCEPT
                   ![p] = LoadRedisRequestTracker(k, userId[p], url[p],
                                                  fails)]
            /\ loadFailed' = [loadFailed EXCEPT ![p] = fails]
            /\ UNCHANGED hist
    /\ UNCHANGED <<config, backend, serial, faulty, identities, now, store,
                   version, userId, url, currentTime, attempts, seen,
                   errValidate, pipeline>>

(***************************************************************************)
(* Finish: the decision and the write.                                     *)
(*  datastore (limitterDatastore.go:59-73): a rejection is returned, which *)
(*    rolls the transaction back; otherwise tx.Put and Commit.  Commit     *)
(*    fails with ErrConcurrentTransaction when the record read has been    *)
(*    written since, and RunInTransaction then runs the function again,    *)
(*    MaxAttempts times at most.  Every error but the two rejections is    *)
(*    answered with 500 by processValidateResult.                          *)
(*  redis (limitterDatastore.go:170-197): the tracker is saved whatever    *)
(*    ValidateRequest returned; a failed save replaces a nil result only   *)
(*    when AbortOnFail is set.                                             *)
(***************************************************************************)
\* the key's time-to-live after the pipeline: EXPIRE only with ExpSec > 0
SaveRedisRequestTrackerNoExpire(k, t, expireSecond) ==
    Record(t, store[k].ttl)

SaveRedisRequestTrackerNoCount(k, t, expireSecond) ==
    Record([t EXCEPT !.WindowRequest = store[k].tracker.WindowRequest],
           IF expireSecond > 0 THEN expireSecond ELSE store[k].ttl)

SaveRedisRequestTracker(k, t, expireSecond) ==
    Record(t, IF expireSecond > 0 THEN expireSecond ELSE store[k].ttl)

\* Commit succeeds only on the version the transaction read
CommitConflicts(p, k) == version[k] # base[p]

RedisResult(pErrValidate, saveFails) ==
    IF pErrValidate = Nil /\ saveFails /\ config.AbortOnFail
    THEN ErrStorage ELSE pErrValidate

FinishDatastoreAlwaysPuts(p, fails) ==
    LET k == CreateTrackerName(userId[p], url[p])
        v == ValidateRequest(tracker[p], currentTime[p], config)
    IN
    /\ tracker' = [tracker EXCEPT ![p] = v.tracker]
    /\ store' = [store EXCEPT ![k] = Record(v.tracker, 0)]
    /\ version' = [version EXCEPT ![k] = version[k] + 1]
    /\ pc' = [pc EXCEPT ![p] = "idle"]
    /\ hist' = Append(hist,
           Finished(p, v.err, FALSE, FALSE, base[p], v.err = Nil))
    /\ UNCHANGED attempts

FinishDatastoreRetriesUnbounded(p, fails) ==
    LET k == CreateTrackerName(userId[p], url[p])
        v == ValidateRequest(tracker[p], currentTime[p], config)
        done(err, commitFailed, wrote) ==
            /\ pc' = [pc EXCEPT ![p] = "idle"]
            /\ hist' = Append(hist,
                   Finished(p, err, FALSE, commitFailed, base[p], wrote))
            /\ UNCHANGED attempts
    IN
    /\ tracker' = [tracker EXCEPT ![p] = v.tracker]
    /\ IF v.err # Nil
       THEN done(v.err, FALSE, FALSE) /\ UNCHANGED <<store, version>>
       ELSE IF fails
       THEN done(ErrStorage, TRUE, FALSE) /\ UNCHANGED <<store, version>>
       ELSE IF CommitConflicts(p, k)
       THEN /\ UNCHANGED <<store, version>>
            /\ pc' = [pc EXCEPT ![p] = "started"]
            /\ attempts' = [attempts EXCEPT ![p] = attempts[p] + 1]
            /\ UNCHANGED hist
       ELSE /\ store' = [store EXCEPT ![k] = Record(v.tracker, 0)]
            /\ version' = [version EXCEPT ![k] = version[k] + 1]
            /\ done(Nil, FALSE, TRUE)


FinishDatastore(p, fails) ==
    LET k == CreateTrackerName(userId[p], url[p])
        v == ValidateRequest(tracker[p], currentTime[p], config)
        done(err, commitFailed, wrote) ==
            /\ pc' = [pc EXCEPT ![p] = "idle"]
            /\ hist' = Append(hist,
                   Finished(p, err, FALSE, commitFailed, base[p], wrote))
            /\ UNCHANGED attempts
    IN
    /\ tracker' = [tracker EXCEPT ![p] = v.tracker]
    /\ IF v.err # Nil
       THEN done(v.err, FALSE, FALSE) /\ UNCHANGED <<store, version>>
       ELSE IF fails
       THEN done(ErrStorage, TRUE, FALSE) /\ UNCHANGED <<store, version>>
       ELSE IF CommitConflicts(p, k)
       THEN /\ UNCHANGED <<store, version>>
            /\ IF attempts[p] + 1 < MaxAttempts
               THEN /\ pc' = [pc EXCEPT ![p] = "started"]
                    /\ attempts' = [attempts EXCEPT ![p] = attempts[p] + 1]
                    /\ UNCHANGED hist
               ELSE done(ErrConcurrentTransaction, TRUE, FALSE)
       ELSE /\ store' = [store EXCEPT ![k] = Record(v.tracker, 0)]
            /\ version' = [version EXCEPT ![k] = version[k] + 1]
            /\ done(Nil, FALSE, TRUE)

FinishRedisSavesAccepted(p, fails) ==
    LET v == ValidateRequest(tracker[p], currentTime[p], config)
        k == CreateRedisTrackerKey(v.tracker.UID, v.tracker.URL)
    IN
    /\ tracker' = [tracker EXCEPT ![p] = v.tracker]
    /\ IF fails \/ v.err # Nil
       THEN UNCHANGED <<store, version>>
       ELSE /\ store' = [store EXCEPT
                   ![k] = SaveRedisRequestTracker(k, v.tracker, config.ExpSec)]
            /\ version' = [version EXCEPT ![k] = version[k] + 1]
    /\ pc' = [pc EXCEPT ![p] = "idle"]
    /\ hist' = Append(hist,
           Finished(p, RedisResult(v.err, fails), loadFailed[p], fails,
                    base[p], ~fails /\ v.err = Nil))
    /\ UNCHANGED attempts

FinishRedis(p, fails) ==
    LET v == ValidateRequest(tracker[p], currentTime[p], config)
        k == CreateRedisTrackerKey(v.tracker.UID, v.tracker.URL)
    IN
    /\ tracker' = [tracker EXCEPT ![p] = v.tracker]
    /\ IF fails
       THEN UNCHANGED <<store, version>>
       ELSE /\ store' = [store EXCEPT
                   ![k] = SaveRedisRequestTracker(k, v.tracker, config.ExpSec)]
            /\ version' = [version EXCEPT ![k] = version[k] + 1]
    /\ pc' = [pc EXCEPT ![p] = "idle"]
    /\ hist' = Append(hist,
           Finished(p, RedisResult(v.err, fails), loadFailed[p], fails,
                    base[p], ~fails))
    /\ UNCHANGED attempts

Finish(p, fails) ==
    /\ pc[p] = "loaded"
    /\ IF backend = "datastore" THEN FinishDatastore(p, fails)
       ELSE FinishRedis(p, fails)
    /\ UNCHANGED <<config, backend, serial, faulty, identities, now, userId,
                   url, currentTime, base, loadFailed, seen, errValidate,
                   pipeline>>

Next ==
    \/ Tick
    \/ \E p \in Procs : Start(p)
    \/ \E p \in Procs : \E fails \in FaultChoices : Load(p, fails)
    \/ \E p \in Procs : \E fails \in FaultChoices : Finish(p, fails)

(***************************************************************************)
(* The redis save as the server runs it.  SaveRedisRequestTracker sends    *)
(* its commands with rdb.Pipelined (limitterDatastore.go:134-150): one     *)
(* HSET per field, then EXPIRE when expireSecond > 0, with no MULTI/EXEC   *)
(* around them.  The server runs the commands of a pipeline in order, one  *)
(* at a time; commands of other clients may run in between, and a          *)
(* pipeline whose request context is cancelled or whose connection breaks  *)
(* may have run only a prefix of its commands.                             *)
(***************************************************************************)
PipelineCommands(expireSecond) ==
    <<"UID", "URL", "WindowNum", "WindowRequest", "LastCall", "Exp">>
        \o (IF expireSecond > 0 THEN <<"EXPIRE">> ELSE <<>>)

\* the record after HSET of one field of t
HSet(rec, t, field) ==
    [found |-> TRUE, tracker |-> [rec.tracker EXCEPT ![field] = t[field]],
     ttl |-> rec.ttl, mismatch |-> FALSE,
     fields |-> rec.fields \cup {field}]

\* the record after EXPIRE: a key that does not exist gets no time-to-live
Expire(rec, expireSecond) ==
    IF rec.found THEN [rec EXCEPT !.ttl = expireSecond] ELSE rec

\* ValidateRequest, then the pipeline is sent (limitterDatastore.go:170-175)
ValidateRedis(p) ==
    LET v == ValidateRequest(tracker[p], currentTime[p], config) IN
    /\ pc[p] = "loaded"
    /\ backend = "redis"
    /\ pc' = [pc EXCEPT ![p] = "saving"]
    /\ tracker' = [tracker EXCEPT ![p] = v.tracker]
    /\ errValidate' = [errValidate EXCEPT ![p] = v.err]
    /\ pipeline' = [pipeline EXCEPT ![p] = PipelineCommands(config.ExpSec)]
    /\ UNCHANGED <<config, backend, serial, faulty, identities, now, store,
                   version, userId, url, currentTime, base, attempts,
                   loadFailed, seen, hist>>

\* the server runs the next command of p's pipeline; after the last one the
\* handler has errSetTracker = nil and answers (limitterDatastore.go:176-197)
Pipelined(p) ==
    LET k == CreateRedisTrackerKey(tracker[p].UID, tracker[p].URL)
        cmd == Head(pipeline[p])
    IN
    /\ pc[p] = "saving"
    /\ pipeline[p] # <<>>
    /\ store' = [store EXCEPT
           ![k] = IF cmd = "EXPIRE" THEN Expire(store[k], config.ExpSec)
                  ELSE HSet(store[k], tracker[p], cmd)]
    /\ version' = [version EXCEPT ![k] = version[k] + 1]
    /\ pipeline' = [pipeline EXCEPT ![p] = Tail(pipeline[p])]
    /\ UNCHANGED <<config, backend, serial, faulty, identities, now, userId,
                   url, currentTime, tracker, base, attempts, loadFailed,
                   seen, errValidate>>
    /\ IF Tail(pipeline[p]) = <<>>
       THEN /\ pc' = [pc EXCEPT ![p] = "idle"]
            /\ hist' = Append(hist,
                   Finished(p, RedisResult(errValidate[p], FALSE),
                            loadFailed[p], FALSE, base[p], TRUE))
       ELSE UNCHANGED <<pc, hist>>

\* the pipeline ends with an error before the server has run all of it
Cancelled(p) ==
    /\ pc[p] = "saving"
    /\ pipeline[p] # <<>>
    /\ pipeline' = [pipeline EXCEPT ![p] = <<>>]
    /\ pc' = [pc EXCEPT ![p] = "idle"]
    /\ UNCHANGED <<config, backend, serial, faulty, identities, now, store,
                   version, userId, url, currentTime, tracker, base, attempts,
                   loadFailed, seen, errValidate>>
    /\ hist' = Append(hist,
           Finished(p, RedisResult(errValidate[p], TRUE), loadFailed[p],
                    TRUE, base[p],
                    Len(pipeline[p]) < Len(PipelineCommands(config.ExpSec))))

NextPipelined ==
    \/ TickWithin(MaxPipelinedTime)
    \/ \E p \in Procs : StartWithin(p, MaxPipelinedRequests)
    \/ \E p \in Procs : \E fails \in FaultChoices : Load(p, fails)
    \/ \E p \in Procs : ValidateRedis(p)
    \/ \E p \in Procs : Pipelined(p)
    \/ \E p \in Procs : Cancelled(p)


Spec == Init /\ [][Next]_vars

SpecConcurrent == InitConcurrent /\ [][Next]_vars

SpecFaulty == InitFaulty /\ [][Next]_vars

SpecLegacy == InitLegacy /\ [][Next]_vars

SpecKeys == InitKeys /\ [][Next]_vars

SpecConstructed == InitConstructed /\ [][Next]_vars

SpecPipelined == InitPipelined /\ [][NextPipelined]_vars

\* The datastore limiter under concurrent requests, with every request in
\* flight taking its next step in the end: the handler's goroutine is
\* scheduled and the backend answers every call.
InitRetry ==
    /\ InitConcurrent
    /\ backend = "datastore"
    /\ config.MaxRequestPerWindow > 1

NextRetry ==
    \/ TickWithin(MaxRetryTime)
    \/ \E p \in Procs : StartWithin(p, MaxRetryRequests)
    \/ \E p \in Procs : \E fails \in FaultChoices : Load(p, fails)
    \/ \E p \in Procs : \E fails \in FaultChoices : Finish(p, fails)

SpecRetry ==
    /\ InitRetry
    /\ [][NextRetry]_vars
    /\ \A p \in Procs :
          /\ WF_vars(\E fails \in FaultChoices : Load(p, fails))
          /\ WF_vars(\E fails \in FaultChoices : Finish(p, fails))

(***************************************************************************)
(* Vocabulary of the properties.                                           *)
(***************************************************************************)
Key == TrackerKey(backend, UserId, Url)

Stored == store[Key]

Done == DOMAIN hist

\* the handler let the gin context proceed
Admitted(i) == ProcessValidateResult(hist[i].err) = Proceed

TooFast(i) == ProcessValidateResult(hist[i].err) = StatusTooEarly

TooFrequent(i) == ProcessValidateResult(hist[i].err) = StatusTooManyRequests

StorageFailed(i) ==
    ProcessValidateResult(hist[i].err) = StatusInternalServerError

WindowOf(time) == time \div config.WindowSize

AdmittedIn(w) == {i \in Done : Admitted(i) /\ WindowOf(hist[i].t) = w}

\* the windows the finished requests fell in
Windows == {WindowOf(hist[i].t) : i \in Done}

\* slot p takes its Finish step and the request ends (no retry)
Finishes(p) == pc[p] = "loaded" /\ pc'[p] = "idle"

Last == hist[Len(hist)]

(***************************************************************************)
(* C1  Minimum spacing.  Requests on one key handled one at a time, no     *)
(* storage failure, either backend, MinRequestInterval > 0: any two        *)
(* admitted requests are at least MinRequestInterval milliseconds apart.   *)
(***************************************************************************)
MinimumSpacing ==
    config.MinRequestInterval > 0 =>
        \A i, j \in Done :
            i < j /\ Admitted(i) /\ Admitted(j) =>
                hist[j].t - hist[i].t >= config.MinRequestInterval

\* two admitted requests exactly MinRequestInterval apart, one rejected
\* as too fast between them
MinimumSpacingWitness ==
    /\ config.MinRequestInterval > 0
    /\ \E i, j, l \in Done :
          /\ i < l /\ l < j
          /\ Admitted(i) /\ TooFast(l) /\ Admitted(j)
          /\ hist[j].t - hist[i].t = config.MinRequestInterval

(***************************************************************************)
(* C2  Window quota.  Requests on one key handled one at a time, no        *)
(* storage failure, either backend, WindowSize > 0: the admitted requests  *)
(* whose time falls in one window floor(now / WindowSize) never number     *)
(* more than MaxRequestPerWindow.                                          *)
(***************************************************************************)
WindowQuota ==
    config.WindowSize > 0 =>
        \A w \in Windows :
            Cardinality(AdmittedIn(w)) <= config.MaxRequestPerWindow

\* a window filled to the quota, and a further request in it rejected
WindowQuotaWitness ==
    /\ config.WindowSize > 0
    /\ config.MaxRequestPerWindow = 2
    /\ \E w \in Windows :
          /\ Cardinality(AdmittedIn(w)) = config.MaxRequestPerWindow
          /\ \E i \in Done : TooFrequent(i) /\ WindowOf(hist[i].t) = w

(***************************************************************************)
(* C3  Inclusive boundary.  From a key with no record, WindowSize > 0,     *)
(* MaxRequestPerWindow = N >= 1: in a run of requests that all fall in one *)
(* window and all pass the interval check, the 1st to the N-th are         *)
(* admitted and the (N+1)-th is rejected as too frequent (429).            *)
(***************************************************************************)
\* the first k requests fall in one window and none is too fast
OneWindowRun(k) ==
    \A i \in 1..k : WindowOf(hist[i].t) = WindowOf(hist[1].t) /\ ~TooFast(i)

InclusiveBoundary ==
    config.WindowSize > 0 /\ config.MaxRequestPerWindow >= 1 =>
        \A k \in Done :
            OneWindowRun(k) =>
                /\ k <= config.MaxRequestPerWindow => Admitted(k)
                /\ k = config.MaxRequestPerWindow + 1 => TooFrequent(k)

InclusiveBoundaryWitness ==
    /\ config.WindowSize > 0
    /\ config.MaxRequestPerWindow = 2
    /\ Len(hist) >= 3
    /\ OneWindowRun(3)
    /\ Admitted(2) /\ TooFrequent(3)

(***************************************************************************)
(* C4  Quota under concurrency on the transactional backend.  For any      *)
(* interleaving of concurrent requests on one key through the datastore    *)
(* limiter, conflicting and retried transactions included, the admitted    *)
(* requests whose time falls in one window never number more than          *)
(* MaxRequestPerWindow.                                                    *)
(***************************************************************************)
QuotaUnderConcurrency ==
    backend = "datastore" /\ config.WindowSize > 0 =>
        \A w \in Windows :
            Cardinality(AdmittedIn(w)) <= config.MaxRequestPerWindow

(***************************************************************************)
(* C5  No lost update on the transactional backend.  Two concurrent        *)
(* requests on one key are never both committed after evaluating the same  *)
(* pre-update tracker; if both are admitted in the same window, the        *)
(* persisted WindowRequest reflects both increments.                       *)
(***************************************************************************)
\* no two committed requests had loaded the same version of the record
NoSharedBase ==
    \A i, j \in Done :
        i < j /\ hist[i].wrote /\ hist[j].wrote => hist[i].base # hist[j].base

\* request j, which finished after request i, had started before i finished
Concurrent(i, j) == i < j /\ hist[j].seen < i

\* as the later of two such requests commits, the record counts both
NoLostUpdate ==
    backend = "datastore" /\ config.WindowSize > 0 =>
        /\ NoSharedBase
        /\ \A i \in Done :
              LET j == Len(hist) IN
              /\ Concurrent(i, j)
              /\ Admitted(i) /\ Admitted(j)
              /\ WindowOf(hist[i].t) = WindowOf(hist[j].t)
              => Stored.tracker.WindowRequest >= 2

(***************************************************************************)
(* C6  The best-effort race is reachable.  On redis a request is decided   *)
(* on the tracker it loaded and written whatever has been stored since, so *)
(* two concurrent requests can load the same record, both be admitted and  *)
(* both write: more than MaxRequestPerWindow admitted in one window, and   *)
(* two admitted requests closer than MinRequestInterval.                   *)
(***************************************************************************)
RedisBlindWrite ==
    \A p \in Procs :
        backend = "redis" /\ Finishes(p) =>
            LET v == ValidateRequest(tracker[p], currentTime[p], config) IN
            /\ Last'.err = v.err
            /\ Last'.wrote
            /\ Stored'.tracker = v.tracker

BestEffortRace == [][RedisBlindWrite]_vars

BestEffortRaceWitness ==
    /\ backend = "redis"
    /\ config.WindowSize > 0
    /\ config.MinRequestInterval > 0
    /\ \E i, j \in Done :
          /\ i < j /\ Admitted(i) /\ Admitted(j)
          /\ hist[i].base = hist[j].base /\ hist[i].wrote /\ hist[j].wrote
          /\ hist[j].t - hist[i].t < config.MinRequestInterval
          /\ Cardinality(AdmittedIn(WindowOf(hist[i].t)))
                > config.MaxRequestPerWindow

(***************************************************************************)
(* C7  Fail-open.  With AbortOnFail = false a request whose storage load   *)
(* or save failed is not answered with the storage error: it goes on to    *)
(* its handler unless the limits themselves reject it.                     *)
(***************************************************************************)
StorageFault(i) == hist[i].loadFailed \/ hist[i].saveFailed

FailOpen ==
    ~config.AbortOnFail =>
        \A i \in Done : StorageFault(i) => ~StorageFailed(i)

(***************************************************************************)
(* C8  Fail-closed.  With AbortOnFail = true a request whose storage load  *)
(* or save failed does not reach its handler.                              *)
(***************************************************************************)
FailClosed ==
    config.AbortOnFail =>
        \A i \in Done : StorageFault(i) => ~Admitted(i)

(***************************************************************************)
(* C9  A too-fast rejection mutates nothing.  When ValidateRequest returns *)
(* ErrorRequestTooFast the handler's tracker keeps every field, and the    *)
(* stored record holds the same field values after the request as before.  *)
(***************************************************************************)
\* the step in which slot p ends its request with ErrorRequestTooFast
TooFastRejection(p) == Finishes(p) /\ Last'.err = ErrorRequestTooFast

TooFastMutatesNothing ==
    [][\A p \in Procs :
          TooFastRejection(p) =>
              /\ tracker'[p] = tracker[p]
              /\ Stored'.found = Stored.found
              /\ Stored'.tracker = Stored.tracker]_vars

\* C9 as it holds: the tracker keeps every field; the datastore limiter
\* writes nothing; the redis limiter writes back the fields it loaded, which
\* leaves the record as it was when no other request has written the key
\* since this one loaded it.
TooFastWritesBack ==
    [][\A p \in Procs :
          TooFastRejection(p) =>
              /\ tracker'[p] = tracker[p]
              /\ backend = "datastore" => store' = store
              /\ backend = "redis" =>
                    Stored'.found /\ Stored'.tracker = tracker[p]
              /\ version[Key] = base[p] =>
                    /\ Stored'.found = Stored.found
                    /\ Stored'.tracker = Stored.tracker]_vars

\* a too-fast request on redis has written back what it loaded over the
\* record of a request admitted meanwhile
TooFastWritesBackWitness ==
    /\ backend = "redis"
    /\ Len(hist) >= 2
    /\ TooFast(Len(hist)) /\ Last.wrote
    /\ \E i \in Done :
          /\ Concurrent(i, Len(hist))
          /\ Admitted(i) /\ hist[i].wrote
          /\ hist[i].base = Last.base
          /\ Stored.tracker.LastCall # hist[i].t

(***************************************************************************)
(* C10  LastCall moves only on acceptance.  A request rejected as too fast *)
(* or as too frequent leaves LastCall as it was, in the handler's tracker  *)
(* and in the stored record.                                               *)
(***************************************************************************)
Rejection(p) ==
    /\ Finishes(p)
    /\ Last'.err \in {ErrorRequestTooFast, ErrorRequestTooFreequently}

RejectionKeepsLastCall ==
    [][\A p \in Procs :
          Rejection(p) =>
              /\ tracker'[p].LastCall = tracker[p].LastCall
              /\ Stored'.tracker.LastCall = Stored.tracker.LastCall]_vars

(***************************************************************************)
(* C11  The datastore limiter writes only on acceptance.  The tracker is   *)
(* put iff ValidateRequest returned nil: a rejected request (too fast or   *)
(* too frequent) leaves the stored record as it was, and an accepted one   *)
(* whose commit does not conflict stores the tracker ValidateRequest left. *)
(***************************************************************************)
\* slot p takes its Finish step (the request ends or is retried)
Decides(p) == pc[p] = "loaded" /\ pc'[p] # "loaded"

WritesOnlyOnAcceptance ==
    [][backend = "datastore" =>
          \A p \in Procs :
              Decides(p) =>
                  LET v == ValidateRequest(tracker[p], currentTime[p], config)
                  IN
                  /\ v.err # Nil =>
                        /\ store' = store /\ version' = version
                        /\ Last'.err = v.err /\ ~Last'.wrote
                  /\ v.err = Nil /\ version[Key] = base[p] =>
                        /\ Stored'.found /\ Stored'.tracker = v.tracker
                        /\ Last'.wrote
                  /\ store' # store => v.err = Nil]_vars

\* a request rejected by a limit while another was in flight, and the record
\* is still the one the last admitted request wrote
WritesOnlyOnAcceptanceWitness ==
    /\ backend = "datastore"
    /\ Len(hist) >= 2
    /\ TooFast(Len(hist)) \/ TooFrequent(Len(hist))
    /\ ~Last.wrote
    /\ \E i \in Done :
          /\ Concurrent(i, Len(hist))
          /\ Admitted(i) /\ hist[i].wrote
          /\ Stored.tracker.LastCall = hist[i].t
          /\ Stored.tracker.WindowRequest = 1

(***************************************************************************)
(* C12  The redis limiter writes unconditionally.  Every request, admitted *)
(* or rejected, stores the six tracker fields as ValidateRequest left      *)
(* them: after a too-frequent rejection the stored WindowRequest is the    *)
(* incremented count.  With ExpSec > 0 each request also sets the key's    *)
(* time-to-live to ExpSec seconds.                                         *)
(***************************************************************************)
\* the count a request at currentTime[p] brings the loaded tracker to
IncrementedCount(p) ==
    IF WindowOf(currentTime[p]) = tracker[p].WindowNum
    THEN tracker[p].WindowRequest + 1
    ELSE 1

WritesUnconditionally ==
    [][backend = "redis" =>
          \A p \in Procs :
              Finishes(p) =>
                  LET v == ValidateRequest(tracker[p], currentTime[p], config)
                  IN
                  /\ Stored'.found
                  /\ Stored'.tracker = v.tracker
                  /\ version'[Key] = version[Key] + 1
                  /\ Last'.err = ErrorRequestTooFreequently =>
                        /\ Stored'.tracker.WindowRequest = IncrementedCount(p)
                        /\ Stored'.tracker.WindowRequest
                              > config.MaxRequestPerWindow
                  /\ config.ExpSec > 0 => Stored'.ttl = config.ExpSec]_vars

\* a too-frequent rejection has stored a count above the quota and set the
\* time-to-live
WritesUnconditionallyWitness ==
    /\ backend = "redis"
    /\ config.ExpSec > 0
    /\ config.MaxRequestPerWindow >= 1
    /\ Len(hist) >= 2
    /\ TooFrequent(Len(hist)) /\ Last.wrote
    /\ Stored.tracker.WindowRequest = config.MaxRequestPerWindow + 1
    /\ Stored.tracker.LastCall = Last.t
    /\ Stored.ttl = config.ExpSec

(***************************************************************************)
(* C13  Record not found is a first request, not an error.  On either      *)
(* backend a request for a key with no stored record is evaluated against  *)
(* a tracker with LastCall = 0 and WindowRequest = 0, is never rejected as *)
(* too fast and, its backend calls succeeding, never ends as a storage     *)
(* failure; a tracker with LastCall = 0 is too fast for no time and no     *)
(* MinRequestInterval.                                                     *)
(***************************************************************************)
\* nothing has been written to the key: the version a load saw is 0
LoadedNoRecord(readVersion) == readVersion = 0

FirstRequest ==
    /\ \A p \in Procs :
          pc[p] = "loaded" /\ LoadedNoRecord(base[p]) =>
              /\ tracker[p].UID = UserId /\ tracker[p].URL = Url
              /\ tracker[p].LastCall = 0
              /\ tracker[p].WindowNum = 0
              /\ tracker[p].WindowRequest = 0
    /\ \A i \in Done :
          LoadedNoRecord(hist[i].base) /\ ~StorageFault(i) =>
              ~TooFast(i) /\ ~StorageFailed(i)
    /\ \A time \in 0..TimeBound, m \in 0..(TimeBound + 1) :
          ~IsRequestTooFast(NewRequestTracker(UserId, Url), time, m)

\* a first request admitted at a time smaller than MinRequestInterval
FirstRequestWitness ==
    /\ Len(hist) >= 1
    /\ LoadedNoRecord(hist[1].base) /\ ~StorageFault(1)
    /\ hist[1].t < config.MinRequestInterval
    /\ Admitted(1) /\ hist[1].wrote
    /\ Stored.found

(***************************************************************************)
(* C14  State after acceptance.  After an admitted request at time now the *)
(* stored tracker has LastCall = now, Exp = now + ExpSec * 1000 when       *)
(* ExpSec > 0 and, with WindowSize > 0, WindowNum = floor(now /            *)
(* WindowSize); after the first request ever on a key the stored           *)
(* WindowRequest is 1.                                                     *)
(***************************************************************************)
\* the step in which slot p ends its request admitted
Acceptance(p) == Finishes(p) /\ Last'.err = Nil

\* what the claim says of every accepted request
AcceptedFields(p) ==
    /\ Stored'.found
    /\ Stored'.tracker.LastCall = currentTime[p]
    /\ config.ExpSec > 0 =>
          Stored'.tracker.Exp
              = currentTime[p] + config.ExpSec * MillisPerSecond
    /\ config.WindowSize > 0 =>
          Stored'.tracker.WindowNum = WindowOf(currentTime[p])

PassesInterval(p) ==
    ~(/\ config.MinRequestInterval > 0
      /\ IsRequestTooFast(tracker[p], currentTime[p],
                          config.MinRequestInterval))

\* slot p finishes a request that falls in another window than the tracker
\* it loaded
Rollover(p) ==
    /\ Finishes(p)
    /\ config.WindowSize > 0
    /\ config.MaxRequestPerWindow >= 1
    /\ PassesInterval(p)
    /\ WindowOf(currentTime[p]) # tracker[p].WindowNum

WindowRollover ==
    [][\A p \in Procs :
          Rollover(p) =>
              /\ Last'.err = Nil
              /\ Stored'.found
              /\ Stored'.tracker.WindowRequest = 1
              /\ Stored'.tracker.WindowNum = WindowOf(currentTime[p])]_vars

\* a too-frequent rejection that left a count above the quota in the record,
\* then a request in a later window admitted with count 1
WindowRolloverWitness ==
    /\ config.WindowSize > 0
    /\ config.MaxRequestPerWindow >= 1
    /\ Len(hist) >= 3
    /\ TooFrequent(Len(hist) - 1) /\ hist[Len(hist) - 1].wrote
    /\ Admitted(Len(hist))
    /\ WindowOf(Last.t) > WindowOf(hist[Len(hist) - 1].t)
    /\ Stored.tracker.WindowRequest = 1
    /\ Stored.tracker.WindowNum = WindowOf(Last.t)

(***************************************************************************)
(* C16  Reset iff the window index changed.  In every step of a request    *)
(* WindowNum changes only to floor(now / WindowSize), and WindowRequest is *)
(* set to 0 in exactly the steps where WindowNum changes; with             *)
(* WindowSize = 0 neither field ever changes.                              *)
(***************************************************************************)
\* UpdateWindow on the tracker slot p loaded
WindowStep(p) ==
    LET t == tracker[p]
        u == UpdateWindow(t, currentTime[p], config.WindowSize)
        changed == u.WindowNum # t.WindowNum
    IN
    /\ changed <=>
          config.WindowSize > 0 /\ WindowOf(currentTime[p]) # t.WindowNum
    /\ changed =>
          u.WindowNum = WindowOf(currentTime[p]) /\ u.WindowRequest = 0
    /\ ~changed => u.WindowRequest = t.WindowRequest

\* the whole of ValidateRequest on it: a reset count is then counted up to 1
RequestStep(p) ==
    LET t == tracker[p]
        u == tracker'[p]
    IN
    /\ u.WindowNum # t.WindowNum =>
          /\ config.WindowSize > 0
          /\ u.WindowNum = WindowOf(currentTime[p])
          /\ u.WindowRequest = 1
    /\ u.WindowNum = t.WindowNum =>
          u.WindowRequest \in {t.WindowRequest, t.WindowRequest + 1}
    /\ config.WindowSize = 0 =>
          u.WindowNum = t.WindowNum /\ u.WindowRequest = t.WindowRequest

ResetIffWindowChanged ==
    [][\A p \in Procs : Decides(p) => WindowStep(p) /\ RequestStep(p)]_vars

\* two requests counted in one window, then a third in a later window that
\* reset the count
ResetIffWindowChangedWitness ==
    /\ config.WindowSize > 0
    /\ Len(hist) = 3
    /\ \A i \in Done : Admitted(i)
    /\ WindowOf(hist[2].t) = WindowOf(hist[1].t)
    /\ WindowOf(hist[3].t) > WindowOf(hist[2].t)
    /\ Stored.tracker.WindowNum = WindowOf(hist[3].t)
    /\ Stored.tracker.WindowRequest = 1

(***************************************************************************)
(* C17  Outcome classes are distinguishable and exclusive.  Every request  *)
(* ends in exactly one of four outcomes: nil -> proceed (c.Next only in    *)
(* middleware mode), ErrorRequestTooFast -> 425, ErrorRequestTooFreequently*)
(* -> 429, any other error -> 500.  A limit rejection is never reported as *)
(* 500 and a storage error never as 425 or 429.                            *)
(***************************************************************************)
Outcomes ==
    {Proceed, StatusTooEarly, StatusTooManyRequests,
     StatusInternalServerError}

OtherErrors == {ErrStorage, ErrConcurrentTransaction}

OutcomeMapping ==
    /\ ProcessValidateResult(Nil) = Proceed
    /\ ProcessValidateResult(ErrorRequestTooFast) = StatusTooEarly
    /\ ProcessValidateResult(ErrorRequestTooFreequently)
          = StatusTooManyRequests
    /\ \A e \in OtherErrors :
          ProcessValidateResult(e) = StatusInternalServerError
    /\ \A e \in OtherErrors \cup {ErrorRequestTooFast,
                                  ErrorRequestTooFreequently} :
          \A isMiddleware \in BOOLEAN : ~CallsNext(e, isMiddleware)
    /\ CallsNext(Nil, TRUE) /\ ~CallsNext(Nil, FALSE)
    /\ Cardinality(Outcomes) = 4

\* slot p ends its request, in Load (datastore load failure) or in Finish
Ends(p) == pc[p] # "idle" /\ pc'[p] = "idle"

OutcomeOfStep(p) ==
    LET e == Last'.err
        o == ProcessValidateResult(e)
        v == ValidateRequest(tracker[p], currentTime[p], config)
    IN
    /\ o \in Outcomes
    /\ o \in {StatusTooEarly, StatusTooManyRequests} =>
          pc[p] = "loaded" /\ v.err = e
    /\ pc[p] = "loaded" /\ v.err # Nil => e = v.err
    /\ o = StatusInternalServerError =>
          Last'.loadFailed \/ Last'.saveFailed

OutcomeClasses ==
    [][OutcomeMapping /\ \A p \in Procs : Ends(p) => OutcomeOfStep(p)]_vars

\* an admitted request, one rejected by a limit and one ended by a storage
\* failure in one run
OutcomeClassesWitness ==
    /\ \E i \in Done : Admitted(i)
    /\ \E i \in Done : TooFast(i) \/ TooFrequent(i)
    /\ \E i \in Done : StorageFailed(i) /\ StorageFault(i)
    /\ \E i \in Done : ~StorageFailed(i) /\ StorageFault(i)

(***************************************************************************)
(* C18  Requests that respect the limits are admitted.  On either backend  *)
(* a request arriving at least MinRequestInterval milliseconds after the   *)
(* key's last admitted request (exactly MinRequestInterval included) and   *)
(* with fewer than MaxRequestPerWindow requests admitted in its window (or *)
(* WindowSize = 0) is admitted.                                            *)
(***************************************************************************)
AdmittedBefore(j) == {i \in Done : i < j /\ Admitted(i)}

RespectsInterval(j) ==
    \A i \in AdmittedBefore(j) :
        hist[j].t - hist[i].t >= config.MinRequestInterval

RespectsQuota(j) ==
    \/ config.WindowSize = 0
    \/ Cardinality({i \in AdmittedBefore(j) :
                       WindowOf(hist[i].t) = WindowOf(hist[j].t)})
          < config.MaxRequestPerWindow

RespectfulAdmitted ==
    \A j \in Done : RespectsInterval(j) /\ RespectsQuota(j) => Admitted(j)

(***************************************************************************)
(* C19  Zero disables a check.  With MinRequestInterval = 0 no request is  *)
(* ever rejected as too fast, and with WindowSize = 0 no request is ever   *)
(* rejected as too frequent, for every tracker state, every time and every *)
(* MaxRequestPerWindow, 0 included.                                        *)
(***************************************************************************)
\* tracker states, those no run of the model stores included (a LastCall
\* later than the request's time, a count above every quota)
MaxWindowNum == 2
MaxWindowRequest == 3

TrackerStates ==
    [UID : {UserId}, URL : {Url}, WindowNum : 0..MaxWindowNum,
     WindowRequest : 0..MaxWindowRequest, LastCall : 0..MaxTime, Exp : {0}]

ZeroDisablesValidate ==
    \A t \in TrackerStates, time \in 0..MaxTime, cfg \in LimitterConfig :
        LET v == ValidateRequest(t, time, cfg) IN
        /\ cfg.MinRequestInterval = 0 => v.err # ErrorRequestTooFast
        /\ cfg.WindowSize = 0 => v.err # ErrorRequestTooFreequently

ZeroDisables ==
    /\ ZeroDisablesValidate
    /\ config.MinRequestInterval = 0 => \A i \in Done : ~TooFast(i)
    /\ config.WindowSize = 0 => \A i \in Done : ~TooFrequent(i)

\* both checks disabled and a quota of 0: two requests at the same
\* millisecond, both admitted
ZeroDisablesWitness ==
    /\ config.MinRequestInterval = 0
    /\ config.WindowSize = 0
    /\ config.MaxRequestPerWindow = 0
    /\ Len(hist) >= 2
    /\ hist[1].t = hist[2].t
    /\ Admitted(1) /\ Admitted(2)

(***************************************************************************)
(* C20  Schema mismatch equals not found.  When the load of an existing    *)
(* record fails with a field-mismatch error the request is evaluated       *)
(* against the same fresh tracker (UID and URL set, LastCall = 0,          *)
(* WindowNum = 0, WindowRequest = 0) as when there is no record, so both   *)
(* cases give the same outcome and the same stored record.                 *)
(***************************************************************************)
\* the tracker a request of slot p gets when there is no record, and what
\* ValidateRequest makes of it
FreshTracker(p) ==
    NewRequestTrackerWithExpiration(UserId, Url,
        CreateExpiration(config, currentTime[p]))

AsNotFound(p) == ValidateRequest(FreshTracker(p), currentTime[p], config)

SchemaMismatchAsNotFound ==
    [][\A p \in Procs :
          Finishes(p) /\ Stored.mismatch =>
              /\ tracker[p].UID = UserId /\ tracker[p].URL = Url
              /\ tracker[p].LastCall = 0
              /\ tracker[p].WindowNum = 0
              /\ tracker[p].WindowRequest = 0
              /\ Last'.err = AsNotFound(p).err
              /\ Last'.wrote => Stored'.tracker = AsNotFound(p).tracker]_vars

(***************************************************************************)
(* C21  Retries do not replay the decision with a stale time.  When the    *)
(* datastore transaction of a request is retried after a conflict,         *)
(* ValidateRequest is not evaluated again with the currentTime captured    *)
(* before the first attempt.                                               *)
(***************************************************************************)
\* slot p evaluates ValidateRequest in a later attempt of its transaction,
\* with the time its handler read before the first one, the clock having
\* moved since
StaleReplay(p) ==
    /\ Decides(p)
    /\ attempts[p] > 0
    /\ currentTime'[p] = currentTime[p]
    /\ currentTime[p] < now
    /\ tracker'[p]
          = ValidateRequest(tracker[p], currentTime[p], config).tracker

NoStaleReplay ==
    [][backend = "datastore" => \A p \in Procs : ~StaleReplay(p)]_vars

(***************************************************************************)
(* C22  One record per call.  As stated: every request that meets no       *)
(* storage failure creates or updates exactly one tracker record, the one  *)
(* keyed by its own (userId, url), whatever its outcome and on either      *)
(* backend.                                                                *)
(***************************************************************************)
OwnKey(p) == TrackerKey(backend, userId[p], url[p])

\* the keys whose record the step writes
Written == {k \in DOMAIN store : version'[k] # version[k]}

NoStorageFailure(p) == ~Last'.loadFailed /\ ~Last'.saveFailed

OneRecordPerCall ==
    [][\A p \in Procs :
          Finishes(p) /\ NoStorageFailure(p) => Written = {OwnKey(p)}]_vars

\* C22 as the code has it: a request that meets no storage failure writes
\* the record of its own key and no other; the redis limiter writes it
\* whatever the outcome, the datastore limiter only when the request is
\* admitted and writes nothing when it is rejected.
OneRecordPerOutcome ==
    [][\A p \in Procs :
          Finishes(p) /\ NoStorageFailure(p) =>
              /\ Written \subseteq {OwnKey(p)}
              /\ OwnKey(p) \in Written
                     <=> backend = "redis" \/ Last'.err = Nil]_vars

\* two clients with a record each, and a rejected request that wrote none
OneRecordPerOutcomeWitness ==
    /\ backend = "datastore"
    /\ \A k \in DOMAIN store : store[k].found
    /\ Cardinality(DOMAIN store) = NumClients
    /\ \E i \in Done :
          /\ hist[i].err \in {ErrorRequestTooFast, ErrorRequestTooFreequently}
          /\ ~hist[i].wrote

(***************************************************************************)
(* C23  Invalid configuration is rejected at construction.  A limiter      *)
(* cannot be created with a negative MinRequestInterval or a negative      *)
(* WindowSize: no request is ever evaluated under such a configuration.    *)
(***************************************************************************)
ValidConfiguration ==
    config.MinRequestInterval >= 0 /\ config.WindowSize >= 0

NoRequestUnderInvalidConfiguration ==
    (\E p \in Procs : pc[p] = "loaded") \/ hist # <<>>
        => ValidConfiguration

(***************************************************************************)
(* C24  Default expiration.  With ExpSec = 0 the default of 3600 seconds   *)
(* is used for the record's expiry everywhere it is applied: after an      *)
(* accepted request the tracker's Exp field is now + 3600 s, and the       *)
(* redis record's time-to-live is the default rather than left unset.      *)
(***************************************************************************)
DefaultExpiration ==
    [][\A p \in Procs :
          Acceptance(p) /\ config.ExpSec = 0 =>
              /\ Stored'.tracker.Exp
                    = currentTime[p]
                         + DefaultSessionExpirationSeconds * MillisPerSecond
              /\ backend = "redis" =>
                    Stored'.ttl = DefaultSessionExpirationSeconds]_vars

(***************************************************************************)
(* C25  Key derivation is collision-free.  CreateTrackerName and           *)
(* CreateRedisTrackerKey return different keys for any two different       *)
(* (userId, url) pairs, pairs holding the separator included: the clients  *)
(* of a run have a key each, and a request's tracker is loaded from the    *)
(* key of its own pair only.                                               *)
(***************************************************************************)
CollisionFreeKeys ==
    /\ \A a, b \in identities :
          a # b =>
              /\ CreateTrackerName(a[1], a[2]) # CreateTrackerName(b[1], b[2])
              /\ CreateRedisTrackerKey(a[1], a[2])
                    # CreateRedisTrackerKey(b[1], b[2])
    /\ \A p \in Procs :
          pc[p] = "loaded" =>
              \A id \in identities :
                  TrackerKey(backend, id[1], id[2]) = OwnKey(p)
                      => id = <<userId[p], url[p]>>

(***************************************************************************)
(* C26  No torn record.  The stored record of a key holds the six fields   *)
(* of one single request's write, or there is no record: it never mixes    *)
(* fields written by two requests and never holds only part of one         *)
(* request's fields, under concurrent writers or cancellation.  Stated of  *)
(* the moments at which no save is under way.                              *)
(***************************************************************************)
\* the trackers the requests so far have saved or are saving
Writes ==
    {hist[i].tracker : i \in Done}
        \cup {tracker[p] : p \in {q \in Procs : pc[q] = "saving"}}

Torn(rec) ==
    rec.found /\ (rec.fields # Fields \/ rec.tracker \notin Writes)

NoTornRecord ==
    (\A p \in Procs : pc[p] # "saving")
        => \A k \in DOMAIN store : ~Torn(store[k])

(***************************************************************************)
(* C27  Bounded retries and termination.  Every request through the        *)
(* datastore limiter ends with exactly one outcome after a bounded number  *)
(* of transaction attempts, also when other requests on the key keep       *)
(* conflicting with it; a request whose attempts are exhausted ends as a   *)
(* storage fault.                                                          *)
(***************************************************************************)
\* the commit of p's transaction fails on a conflict in this step
Conflict(p) ==
    /\ Decides(p)
    /\ ValidateRequest(tracker[p], currentTime[p], config).err = Nil
    /\ CommitConflicts(p, OwnKey(p))

ConflictDistinguishable ==
    \A i \in Done :
        hist[i].err = ErrConcurrentTransaction =>
            ProcessValidateResult(hist[i].err)
                # ProcessValidateResult(ErrStorage)

(***************************************************************************)
(* C29  The two backends are interchangeable.  For every sequence of       *)
(* requests on one key handled one at a time with no storage failure, the  *)
(* same configuration and the same request times, the redis limiter and    *)
(* the datastore limiter give the same sequence of outcomes.               *)
(***************************************************************************)
\* one request at the given time through the limiter of backend b, the
\* key's record being rec: its outcome and the record it leaves
Serve(b, rec, time) ==
    LET loaded ==
            IF ~rec.found
            THEN IF b = "datastore"
                 THEN NewRequestTrackerWithExpiration(UserId, Url,
                          CreateExpiration(config, time))
                 ELSE NewRequestTracker(UserId, Url)
            ELSE IF b = "datastore" THEN LoadEntity(rec, ZeroTracker)
                 ELSE LoadEntity(rec, NewRequestTracker(UserId, Url))
        v == ValidateRequest(loaded, time, config)
    IN
    [outcome |-> ProcessValidateResult(v.err),
     rec |-> IF b = "redis" \/ v.err = Nil THEN Record(v.tracker, 0)
             ELSE rec]

\* the outcomes of requests at the given times, one after the other
RECURSIVE Replay(_, _, _)
Replay(b, rec, times) ==
    IF times = <<>> THEN <<>>
    ELSE LET s == Serve(b, rec, Head(times)) IN
         <<s.outcome>> \o Replay(b, s.rec, Tail(times))

RequestTimes == [i \in Done |-> hist[i].t]

\* the outcomes of the run are those either backend gives for its times
Interchangeable ==
    \A b \in Backends :
        Replay(b, NoRecord, RequestTimes)
            = [i \in Done |-> ProcessValidateResult(hist[i].err)]

(***************************************************************************)
(* C30  The interval check takes precedence.  When a request both arrives  *)
(* less than MinRequestInterval after LastCall and would push              *)
(* WindowRequest above MaxRequestPerWindow, ValidateRequest returns        *)
(* ErrorRequestTooFast and WindowRequest is not incremented, so too-fast   *)
(* requests do not consume window quota.                                   *)
(***************************************************************************)
\* a request at the given time on tracker t fails both checks
FailsBoth(t, time, cfg) ==
    /\ cfg.MinRequestInterval > 0
    /\ t.LastCall > 0
    /\ time >= t.LastCall
    /\ time - t.LastCall < cfg.MinRequestInterval
    /\ cfg.WindowSize > 0
    /\ UpdateRequest(t, time, cfg).WindowRequest > cfg.MaxRequestPerWindow

IntervalFirstValidate ==
    \A t \in TrackerStates, time \in 0..MaxTime, cfg \in LimitterConfig :
        FailsBoth(t, time, cfg) =>
            LET v == ValidateRequest(t, time, cfg) IN
            /\ v.err = ErrorRequestTooFast
            /\ v.tracker.WindowRequest = t.WindowRequest

IntervalFirst ==
    [][/\ IntervalFirstValidate
       /\ \A p \in Procs :
             Decides(p) /\ FailsBoth(tracker[p], currentTime[p], config) =>
                 /\ Finishes(p)
                 /\ Last'.err = ErrorRequestTooFast
                 /\ tracker'[p].WindowRequest = tracker[p].WindowRequest
                 /\ Stored'.tracker.WindowRequest
                       = Stored.tracker.WindowRequest]_vars

\* a request rejected as too fast that would have gone over the quota, the
\* stored count being what the request loaded
IntervalFirstWitness ==
    \E i \in Done :
        /\ TooFast(i)
        /\ FailsBoth(hist[i].tracker, hist[i].t, config)
        /\ Stored.tracker.WindowRequest = hist[i].tracker.WindowRequest
        /\ i = Len(hist)

(***************************************************************************)
(* C31  Increment before compare.  As stated: on every evaluation that is  *)
(* not rejected as too fast, WindowRequest is increased by exactly 1       *)
(* (after any window reset) before the frequency comparison, for every     *)
(* configuration, and the request is rejected as too frequent exactly      *)
(* when WindowSize > 0 and the incremented WindowRequest is strictly       *)
(* greater than MaxRequestPerWindow.                                       *)
(***************************************************************************)
\* the count of tracker t once a request at the given time has reset it,
\* if its window is another one
CountAfterReset(t, time, cfg) ==
    IF cfg.WindowSize > 0 /\ time \div cfg.WindowSize # t.WindowNum
    THEN 0 ELSE t.WindowRequest

\* the frequency decision of an evaluation that left the count at n
RejectsExactlyAbove(v, n, cfg) ==
    (v.err = ErrorRequestTooFreequently)
        <=> (cfg.WindowSize > 0 /\ n > cfg.MaxRequestPerWindow)

IncrementsAlways(t, time, cfg) ==
    LET v == ValidateRequest(t, time, cfg) IN
    v.err # ErrorRequestTooFast =>
        /\ v.tracker.WindowRequest = CountAfterReset(t, time, cfg) + 1
        /\ RejectsExactlyAbove(v, v.tracker.WindowRequest, cfg)

IncrementsInWindow(t, time, cfg) ==
    LET v == ValidateRequest(t, time, cfg) IN
    v.err # ErrorRequestTooFast =>
        /\ v.tracker.WindowRequest
              = CountAfterReset(t, time, cfg)
                   + (IF cfg.WindowSize > 0 THEN 1 ELSE 0)
        /\ RejectsExactlyAbove(v, v.tracker.WindowRequest, cfg)

IncrementsInWindowValidate ==
    \A t \in TrackerStates, time \in 0..MaxTime, cfg \in LimitterConfig :
        IncrementsInWindow(t, time, cfg)

Evaluated(i) ==
    /\ ~hist[i].loadFailed
    /\ ~hist[i].saveFailed
    /\ hist[i].err \in {Nil, ErrorRequestTooFast, ErrorRequestTooFreequently}

TooFastAfterAdmitted ==
    \A j \in Done :
        TooFast(j) =>
            \E i \in 1..(j - 1) :
                /\ Admitted(i)
                /\ hist[j].t - hist[i].t < config.MinRequestInterval

(***************************************************************************)
(* C34  The persisted window index never goes back.  Over any              *)
(* interleaving of requests on one key whose currentTime values are read   *)
(* from a non-decreasing clock at request start, the stored WindowNum      *)
(* never decreases.                                                        *)
(***************************************************************************)
WindowNumNeverGoesBack ==
    [][\A k \in DOMAIN store :
          store[k].found =>
              store'[k].tracker.WindowNum >= store[k].tracker.WindowNum]_vars

(***************************************************************************)
(* C35  The persisted LastCall never goes back.  Over any interleaving of  *)
(* requests on one key whose currentTime values are read from a            *)
(* non-decreasing clock at request start, the stored LastCall never        *)
(* decreases.                                                              *)
(***************************************************************************)
LastCallNeverGoesBack ==
    [][\A k \in DOMAIN store :
          store[k].found =>
              store'[k].tracker.LastCall >= store[k].tracker.LastCall]_vars

(***************************************************************************)
(* C36  The stored count stays within the limit on the transactional       *)
(* backend.  With WindowSize > 0, in every reachable state the             *)
(* WindowRequest of a record written by the datastore limiter is between   *)
(* 1 and MaxRequestPerWindow: only accepted trackers are written.          *)
(***************************************************************************)
StoredCountWithinLimit ==
    backend = "datastore" /\ config.WindowSize > 0 =>
        \A k \in DOMAIN store :
            store[k].found =>
                /\ store[k].tracker.WindowRequest >= 1
                /\ store[k].tracker.WindowRequest
                      <= config.MaxRequestPerWindow

\* the record is at the limit and a request over it has been turned away
StoredCountWithinLimitWitness ==
    /\ backend = "datastore"
    /\ config.WindowSize > 0
    /\ Stored.found
    /\ Stored.tracker.WindowRequest = config.MaxRequestPerWindow
    /\ Len(hist) > 0
    /\ TooFrequent(Len(hist))
    /\ hist[Len(hist)].tracker.WindowRequest > config.MaxRequestPerWindow

(***************************************************************************)
(* C37  No permanent lockout.  With MaxRequestPerWindow >= 1, whatever     *)
(* tracker is stored for the key, a request that arrives at least          *)
(* MinRequestInterval after every earlier request on the key and in a      *)
(* later window than every earlier request is admitted (requests one at a  *)
(* time, no storage failure).                                              *)
(***************************************************************************)
\* request j comes late enough after request i
ClearOf(j, i) ==
    /\ hist[j].t - hist[i].t >= config.MinRequestInterval
    /\ config.WindowSize > 0 => WindowOf(hist[j].t) > WindowOf(hist[i].t)

NoPermanentLockout ==
    config.MaxRequestPerWindow >= 1 =>
        \A j \in Done :
            (\A i \in 1..(j - 1) : ClearOf(j, i)) /\ ~StorageFault(j)
                => Admitted(j)

\* a key whose stored count is over the limit after a rejection, and a
\* later request in the next window that is admitted
NoPermanentLockoutWitness ==
    /\ config.MaxRequestPerWindow >= 1
    /\ config.WindowSize > 0
    /\ \E i, j \in Done :
          /\ i < j
          /\ j = Len(hist)
          /\ TooFrequent(i)
          /\ \A h \in 1..(j - 1) : ClearOf(j, h)
          /\ hist[j].loaded.WindowRequest > config.MaxRequestPerWindow
          /\ Admitted(j)


(***************************************************************************)
(* C38  A storage failure leaves the stored state unchanged.  When the     *)
(* load of a request's tracker fails with a storage error, the stored      *)
(* record of the request's key is the same after the request as before it: *)
(* the request does not overwrite the key's count and LastCall with those  *)
(* of a fresh tracker.                                                     *)
(***************************************************************************)
FailedLoadKeepsRecord ==
    [][\A p \in Procs :
          Ends(p) /\ Last'.loadFailed =>
              store'[OwnKey(p)] = store[OwnKey(p)]]_vars

\* the same, for the limiter that loads inside a transaction
FailedLoadKeepsRecordDatastore ==
    [][\A p \in Procs :
          backend = "datastore" /\ Ends(p) /\ Last'.loadFailed =>
              store'[OwnKey(p)] = store[OwnKey(p)]]_vars


(***************************************************************************)
(* C39  Keys are independent.  A request for the pair (u1, r1) never reads *)
(* or changes the stored record of a different pair (u2, r2), on either    *)
(* backend: the record it loads was written by a request of its own pair,  *)
(* and when it ends the record of every other pair of the run is what it   *)
(* was.                                                                    *)
(***************************************************************************)
Loads(p) == pc[p] = "started" /\ pc'[p] = "loaded"

Others(p) == identities \ {<<userId[p], url[p]>>}

ReadsOwnRecord(p) ==
    store[OwnKey(p)].found =>
        /\ tracker'[p].UID = userId[p]
        /\ tracker'[p].URL = url[p]

KeepsOtherRecords(p) ==
    \A id \in Others(p) :
        store'[TrackerKey(backend, id[1], id[2])]
            = store[TrackerKey(backend, id[1], id[2])]

KeysIndependent ==
    [][\A p \in Procs :
          /\ Loads(p) => ReadsOwnRecord(p)
          /\ Ends(p) => KeepsOtherRecords(p)]_vars

\* two pairs of the run have one key
Collide ==
    \E a, b \in identities :
        /\ a # b
        /\ TrackerKey(backend, a[1], a[2]) = TrackerKey(backend, b[1], b[2])

\* the same, for the runs whose pairs have a key each
KeysIndependentWithoutCollision ==
    [][~Collide =>
          \A p \in Procs :
              /\ Loads(p) => ReadsOwnRecord(p)
              /\ Ends(p) => KeepsOtherRecords(p)]_vars

=============================================================================
